---------------------------- MODULE Spec2Model ----------------------------
(***************************************************************************)
(* Model of src/src/enrichment.py: MetadataExtractor (extract_metadata,    *)
(* _parse_json_response, _validate_metadata, detect_calendar_intent,       *)
(* _parse_natural_datetime) and extract_metadata_batch.                    *)
(*                                                                         *)
(* Python str values are TLA+ strings, handled character by character.     *)
(* Python/JSON values are records tagged by field t:                       *)
(*   [t |-> "null"], [t |-> "bool", b], [t |-> "num", m, e, isint],        *)
(*   [t |-> "str", s], [t |-> "list", l], [t |-> "obj", o],                *)
(*   [t |-> "datetime", ...]; a raised exception is [t |-> "raise"].       *)
(***************************************************************************)
EXTENDS Integers, Sequences, FiniteSets, TLC

(***************************************************************************)
(* Python str primitives                                                   *)
(***************************************************************************)
Char(s, i) == SubSeq(s, i, i)

Whitespace == {" ", "\t", "\n"}

UpperAlphabet == "ABCDEFGHIJKLMNOPQRSTUVWXYZ"

LowerAlphabet == "abcdefghijklmnopqrstuvwxyz"

Digits == "0123456789"

\* position of character c in string abc, 0 when absent
IndexIn(c, abc) ==
    IF \E i \in 1..Len(abc) : Char(abc, i) = c
    THEN CHOOSE i \in 1..Len(abc) : Char(abc, i) = c
    ELSE 0

\* str.lower()
LowerChar(c) ==
    LET i == IndexIn(c, UpperAlphabet)
    IN  IF i = 0 THEN c ELSE Char(LowerAlphabet, i)

RECURSIVE Lower(_)
Lower(s) ==
    IF s = "" THEN ""
    ELSE LowerChar(Char(s, 1)) \o Lower(SubSeq(s, 2, Len(s)))

\* str.strip()
RECURSIVE LStrip(_)
LStrip(s) ==
    IF s # "" /\ Char(s, 1) \in Whitespace
    THEN LStrip(SubSeq(s, 2, Len(s)))
    ELSE s

RECURSIVE RStrip(_)
RStrip(s) ==
    IF s # "" /\ Char(s, Len(s)) \in Whitespace
    THEN RStrip(SubSeq(s, 1, Len(s) - 1))
    ELSE s

Strip(s) == RStrip(LStrip(s))

\* s.startswith(sub)
StartsWith(s, sub) ==
    Len(sub) <= Len(s) /\ SubSeq(s, 1, Len(sub)) = sub

\* s[i - 1:].startswith(sub), i counted from 1
HasAt(s, i, sub) ==
    i + Len(sub) - 1 <= Len(s) /\ SubSeq(s, i, i + Len(sub) - 1) = sub

\* sub in s
Contains(sub, s) ==
    \E i \in 1..(Len(s) - Len(sub) + 1) : SubSeq(s, i, i + Len(sub) - 1) = sub

\* s.replace(old, new): every non-overlapping occurrence, left to right
RECURSIVE Replace(_, _, _)
Replace(s, old, new) ==
    IF s = "" THEN ""
    ELSE IF StartsWith(s, old)
         THEN new \o Replace(SubSeq(s, Len(old) + 1, Len(s)), old, new)
         ELSE Char(s, 1) \o Replace(SubSeq(s, 2, Len(s)), old, new)

(***************************************************************************)
(* Python values                                                           *)
(***************************************************************************)
None == [t |-> "null"]

Bool(b) == [t |-> "bool", b |-> b]

Str(s) == [t |-> "str", s |-> s]

List(l) == [t |-> "list", l |-> l]

Obj(o) == [t |-> "obj", o |-> o]

\* an exception leaving the callee
Raised == [t |-> "raise"]

\* a number: m / 10^e, written without trailing fraction zeros; isint tells
\* a Python int from a Python float
RECURSIVE Num(_, _, _)
Num(m, e, isint) ==
    IF e > 0 /\ m % 10 = 0
    THEN Num(m \div 10, e - 1, isint)
    ELSE [t |-> "num", m |-> m, e |-> e, isint |-> isint]

PyInt(n) == Num(n, 0, TRUE)

EmptyDict == [k \in {} |-> None]

\* d[k] = v on a dict
SetItem(d, k, v) == (k :> v) @@ d

\* bool(v): Python truthiness
Truthy(v) ==
    CASE v.t = "null" -> FALSE
      [] v.t = "bool" -> v.b
      [] v.t = "num"  -> v.m # 0
      [] v.t = "str"  -> v.s # ""
      [] v.t = "list" -> v.l # <<>>
      [] v.t = "obj"  -> DOMAIN v.o # {}
      [] OTHER        -> TRUE

(***************************************************************************)
(* json.loads: strict JSON decoding, character by character.  Modelled:    *)
(* objects, arrays, strings without escapes, null/true/false, numbers      *)
(* -?digits(.digits)?.  A backslash or an exponent is not modelled and     *)
(* none of the inputs below holds one.                                     *)
(***************************************************************************)
JsonWhitespace == {" ", "\t", "\n", "\r"}

DecodeError == [ok |-> FALSE]

Decoded(v, pos) == [ok |-> TRUE, v |-> v, pos |-> pos]

IsDigit(c) == c # "" /\ IndexIn(c, Digits) > 0

DigitVal(c) == IndexIn(c, Digits) - 1

RECURSIVE SkipWS(_, _)
SkipWS(s, i) ==
    IF i <= Len(s) /\ Char(s, i) \in JsonWhitespace THEN SkipWS(s, i + 1) ELSE i

\* end of the run of digits starting at i (i itself when there is none)
RECURSIVE DigitsEnd(_, _)
DigitsEnd(s, i) ==
    IF i <= Len(s) /\ IsDigit(Char(s, i)) THEN DigitsEnd(s, i + 1) ELSE i

RECURSIVE DigitsValue(_, _, _, _)
DigitsValue(s, i, j, acc) ==
    IF i >= j THEN acc
    ELSE IF IsDigit(Char(s, i))
         THEN DigitsValue(s, i + 1, j, 10 * acc + DigitVal(Char(s, i)))
         ELSE DigitsValue(s, i + 1, j, acc)

\* a JSON number starting at i
ParseNumber(s, i) ==
    LET Build(neg, d0, intEnd, hasFrac, end) ==
            IF intEnd = d0 THEN DecodeError
            ELSE Decoded(Num(IF neg THEN 0 - DigitsValue(s, d0, end, 0)
                                    ELSE DigitsValue(s, d0, end, 0),
                             IF hasFrac THEN end - intEnd - 1 ELSE 0,
                             ~hasFrac),
                         end)
        Fraction(neg, d0, intEnd, hasFrac) ==
            Build(neg, d0, intEnd, hasFrac,
                  IF hasFrac THEN DigitsEnd(s, intEnd + 1) ELSE intEnd)
        IntPart(neg, d0, intEnd) ==
            Fraction(neg, d0, intEnd,
                     /\ intEnd + 1 <= Len(s)
                     /\ Char(s, intEnd) = "."
                     /\ IsDigit(Char(s, intEnd + 1)))
        Sign(neg, d0) ==
            IntPart(neg, d0,
                    IF d0 <= Len(s) /\ Char(s, d0) = "0" THEN d0 + 1
                    ELSE DigitsEnd(s, d0))
    IN  Sign(Char(s, i) = "-", IF Char(s, i) = "-" THEN i + 1 ELSE i)

\* index of the quote closing the string whose content starts at i; 0 when the
\* string is unterminated or holds a control character or a backslash
RECURSIVE StringEnd(_, _)
StringEnd(s, i) ==
    IF i > Len(s) THEN 0
    ELSE IF Char(s, i) = "\"" THEN i
    ELSE IF Char(s, i) \in {"\n", "\t", "\r", "\\"} THEN 0
    ELSE StringEnd(s, i + 1)

\* a JSON string whose opening quote is at i
ParseString(s, i) ==
    LET Close(j) == IF j = 0 THEN DecodeError
                    ELSE Decoded(Str(SubSeq(s, i + 1, j - 1)), j + 1)
    IN  Close(StringEnd(s, i + 1))

RECURSIVE ParseValue(_, _)
RECURSIVE ParseElements(_, _, _)
RECURSIVE ParseMembers(_, _, _)

\* the elements of an array, i at the first character of the next element
ParseElements(s, i, acc) ==
    LET After(l, j) ==
            IF j > Len(s) THEN DecodeError
            ELSE IF Char(s, j) = "]" THEN Decoded(List(l), j + 1)
            ELSE IF Char(s, j) = "," THEN ParseElements(s, SkipWS(s, j + 1), l)
            ELSE DecodeError
        Element(r) ==
            IF ~r.ok THEN DecodeError
            ELSE After(Append(acc, r.v), SkipWS(s, r.pos))
    IN  Element(ParseValue(s, i))

\* the members of an object, i at the opening quote of the next key
ParseMembers(s, i, acc) ==
    LET After(d, j) ==
            IF j > Len(s) THEN DecodeError
            ELSE IF Char(s, j) = "}" THEN Decoded(Obj(d), j + 1)
            ELSE IF Char(s, j) = "," THEN ParseMembers(s, SkipWS(s, j + 1), d)
            ELSE DecodeError
        Value(k, r) ==
            IF ~r.ok THEN DecodeError
            ELSE After(SetItem(acc, k.v.s, r.v), SkipWS(s, r.pos))
        Colon(k, c) ==
            IF c > Len(s) \/ Char(s, c) # ":" THEN DecodeError
            ELSE Value(k, ParseValue(s, SkipWS(s, c + 1)))
        Key(k) ==
            IF ~k.ok THEN DecodeError ELSE Colon(k, SkipWS(s, k.pos))
    IN  IF i > Len(s) \/ Char(s, i) # "\"" THEN DecodeError
        ELSE Key(ParseString(s, i))

ParseValue(s, i) ==
    LET Object(j) ==
            IF j <= Len(s) /\ Char(s, j) = "}"
            THEN Decoded(Obj(EmptyDict), j + 1)
            ELSE ParseMembers(s, j, EmptyDict)
        Array(j) ==
            IF j <= Len(s) /\ Char(s, j) = "]"
            THEN Decoded(List(<<>>), j + 1)
            ELSE ParseElements(s, j, <<>>)
        Dispatch(c) ==
            CASE c = "\"" -> ParseString(s, i)
              [] c = "{" -> Object(SkipWS(s, i + 1))
              [] c = "[" -> Array(SkipWS(s, i + 1))
              [] c = "n" -> IF HasAt(s, i, "null")
                            THEN Decoded(None, i + 4) ELSE DecodeError
              [] c = "t" -> IF HasAt(s, i, "true")
                            THEN Decoded(Bool(TRUE), i + 4) ELSE DecodeError
              [] c = "f" -> IF HasAt(s, i, "false")
                            THEN Decoded(Bool(FALSE), i + 5) ELSE DecodeError
              [] c = "-" \/ IsDigit(c) -> ParseNumber(s, i)
              [] OTHER -> DecodeError
    IN  IF i > Len(s) THEN DecodeError ELSE Dispatch(Char(s, i))

\* json.loads(s): the decoded value, or Raised for json.JSONDecodeError
JsonLoads(s) ==
    LET Whole(r) == IF r.ok /\ SkipWS(s, r.pos) > Len(s) THEN r.v ELSE Raised
    IN  Whole(ParseValue(s, SkipWS(s, 1)))

(***************************************************************************)
(* re.search of the brace pattern of _parse_json_response: an opening      *)
(* brace, non-brace characters, any number of groups (a brace pair with    *)
(* no brace inside, then non-brace characters), a closing brace.           *)
(***************************************************************************)
\* first index >= j holding a brace, Len(s) + 1 when there is none: [^{}]*
RECURSIVE SkipNonBrace(_, _)
SkipNonBrace(s, j) ==
    IF j <= Len(s) /\ Char(s, j) \notin {"{", "}"} THEN SkipNonBrace(s, j + 1) ELSE j

\* the pattern after its opening brace, from j: index of the closing brace of
\* the match, 0 when the pattern does not match from this opening brace
RECURSIVE MatchOuter(_, _)
MatchOuter(s, j) ==
    LET \* one nested group: an opening brace at b, its closing brace at c
        Group(c) ==
            IF c > Len(s) \/ Char(s, c) = "{" THEN 0 ELSE MatchOuter(s, c + 1)
        Brace(b) ==
            IF b > Len(s) THEN 0
            ELSE IF Char(s, b) = "}" THEN b
            ELSE Group(SkipNonBrace(s, b + 1))
    IN  Brace(SkipNonBrace(s, j))

MatchAt(s, i) ==
    IF i <= Len(s) /\ Char(s, i) = "{" THEN MatchOuter(s, i + 1) ELSE 0

NoMatch == [found |-> FALSE]

\* leftmost match: json_match, with json_match.group(0)
RegexSearch(s) ==
    LET Group(i) == [found |-> TRUE, group |-> SubSeq(s, i, MatchAt(s, i))]
    IN  IF \E i \in 1..Len(s) : MatchAt(s, i) > 0
        THEN Group(CHOOSE k \in 1..Len(s) :
                     MatchAt(s, k) > 0 /\ \A h \in 1..(k - 1) : MatchAt(s, h) = 0)
        ELSE NoMatch

\* what an except clause returns: the fallback in place of a raised exception
Except(body, fallback) == IF body = Raised THEN fallback ELSE body

(***************************************************************************)
(* str(v) and float(v) of Python                                           *)
(***************************************************************************)
RECURSIVE NatToStr(_)
NatToStr(n) ==
    IF n < 10 THEN Char(Digits, n + 1)
    ELSE NatToStr(n \div 10) \o Char(Digits, (n % 10) + 1)

RECURSIVE Pow10(_)
Pow10(e) == IF e = 0 THEN 1 ELSE 10 * Pow10(e - 1)

\* n written with exactly w digits
RECURSIVE ZeroPad(_, _)
ZeroPad(n, w) ==
    IF w = 0 THEN "" ELSE ZeroPad(n \div 10, w - 1) \o Char(Digits, (n % 10) + 1)

\* repr of an int or of a float (floats below 1e16, printed positionally)
NumRepr(v) ==
    LET Positional(sign, mag) ==
            IF v.isint THEN sign \o NatToStr(mag)
            ELSE IF v.e = 0 THEN sign \o NatToStr(mag) \o ".0"
            ELSE sign \o NatToStr(mag \div Pow10(v.e)) \o "."
                      \o ZeroPad(mag % Pow10(v.e), v.e)
    IN  IF v.m < 0 THEN Positional("-", 0 - v.m) ELSE Positional("", v.m)

\* the keys of a dict in one fixed order (insertion order is not kept by the
\* model; the nested dicts of the inputs hold one key)
KeySeq(d) ==
    CHOOSE q \in [1..Cardinality(DOMAIN d) -> DOMAIN d] :
        \A k \in DOMAIN d : \E i \in DOMAIN q : q[i] = k

RECURSIVE PyRepr(_)
RECURSIVE JoinReprs(_)
RECURSIVE JoinItems(_, _)

\* ", ".join(repr(x) for x in l)
JoinReprs(l) ==
    IF l = <<>> THEN ""
    ELSE IF Len(l) = 1 THEN PyRepr(l[1])
    ELSE PyRepr(l[1]) \o ", " \o JoinReprs(Tail(l))

\* ", ".join(f"{k!r}: {v!r}") over the keys ks of d
JoinItems(d, ks) ==
    LET Rest(item) ==
            IF Len(ks) = 1 THEN item ELSE item \o ", " \o JoinItems(d, Tail(ks))
    IN  IF ks = <<>> THEN ""
        ELSE Rest("'" \o ks[1] \o "': " \o PyRepr(d[ks[1]]))

\* repr(v); strings of the inputs hold no quote character
PyRepr(v) ==
    CASE v.t = "null" -> "None"
      [] v.t = "bool" -> IF v.b THEN "True" ELSE "False"
      [] v.t = "num"  -> NumRepr(v)
      [] v.t = "str"  -> "'" \o v.s \o "'"
      [] v.t = "list" -> "[" \o JoinReprs(v.l) \o "]"
      [] v.t = "obj"  -> "{" \o JoinItems(v.o, KeySeq(v.o)) \o "}"

\* str(v)
PyStr(v) == IF v.t = "str" THEN v.s ELSE PyRepr(v)

\* float(s) of a str: surrounding whitespace dropped, an optional sign, digits
\* with an optional fraction.  Exponents, inf, nan and underscores are not
\* modelled and none of the inputs holds one.
FloatOfStr(s0) ==
    LET Build(s, neg, d0, intEnd, hasDot, end) ==
            IF /\ end = Len(s) + 1
               /\ (intEnd - d0) + (IF hasDot THEN end - intEnd - 1 ELSE 0) > 0
            THEN Num(IF neg THEN 0 - DigitsValue(s, d0, end, 0)
                            ELSE DigitsValue(s, d0, end, 0),
                     IF hasDot THEN end - intEnd - 1 ELSE 0, FALSE)
            ELSE Raised
        Fraction(s, neg, d0, intEnd, hasDot) ==
            Build(s, neg, d0, intEnd, hasDot,
                  IF hasDot THEN DigitsEnd(s, intEnd + 1) ELSE intEnd)
        IntPart(s, neg, d0, intEnd) ==
            Fraction(s, neg, d0, intEnd, intEnd <= Len(s) /\ Char(s, intEnd) = ".")
        Sign(s, signed) ==
            IntPart(s, signed /\ Char(s, 1) = "-", IF signed THEN 2 ELSE 1,
                    DigitsEnd(s, IF signed THEN 2 ELSE 1))
        Stripped(s) == Sign(s, s # "" /\ Char(s, 1) \in {"+", "-"})
    IN  Stripped(Strip(s0))

\* float(v): Raised for TypeError and ValueError
PyFloat(v) ==
    CASE v.t = "num"  -> Num(v.m, v.e, FALSE)
      [] v.t = "bool" -> Num(IF v.b THEN 1 ELSE 0, 0, FALSE)
      [] v.t = "str"  -> FloatOfStr(v.s)
      [] OTHER        -> Raised

\* d.get(k, default)
Get(d, k, default) == IF k \in DOMAIN d THEN d[k] ELSE default

\* k in v: Raised for the TypeError of a value that is no container
In(k, v) ==
    CASE v.t = "obj"  -> Bool(k \in DOMAIN v.o)
      [] v.t = "list" -> Bool(\E i \in DOMAIN v.l : v.l[i] = Str(k))
      [] v.t = "str"  -> Bool(Contains(k, v.s))
      [] OTHER        -> Raised

(***************************************************************************)
(* MetadataExtractor                                                       *)
(***************************************************************************)
\* _empty_metadata
EmptyMetadata ==
    Obj([people |-> List(<<>>), topics |-> List(<<>>), dates_mentioned |-> None,
         sentiment |-> Str("neutral"), category |-> Str("general")])

\* _parse_json_response
ParseJsonResponse(response) ==
    LET Whole(whole) == IF whole # Raised THEN whole ELSE EmptyMetadata
        FromMatch(decoded) ==
            IF decoded # Raised THEN decoded ELSE Whole(JsonLoads(response))
        Match(json_match) ==
            IF json_match.found THEN FromMatch(JsonLoads(json_match.group))
            ELSE FromMatch(Raised)
    IN  Match(RegexSearch(response))

\* [str(p).strip() for p in l if p]
RECURSIVE CleanPeople(_)
CleanPeople(l) ==
    IF l = <<>> THEN <<>>
    ELSE IF Truthy(l[1])
         THEN <<Str(Strip(PyStr(l[1])))>> \o CleanPeople(Tail(l))
         ELSE CleanPeople(Tail(l))

\* [str(t).strip().lower() for t in l if t]
RECURSIVE CleanTopics(_)
CleanTopics(l) ==
    IF l = <<>> THEN <<>>
    ELSE IF Truthy(l[1])
         THEN <<Str(Lower(Strip(PyStr(l[1]))))>> \o CleanTopics(Tail(l))
         ELSE CleanTopics(Tail(l))

\* validated["people"] without the isinstance test of the else-arm
PeopleFieldUnchecked(people) ==
    IF people.t = "list" THEN List(CleanPeople(people.l)) ELSE people

\* validated["people"]
PeopleField(people) ==
    IF people.t = "list" THEN List(CleanPeople(people.l)) ELSE List(<<>>)

\* validated["topics"]
TopicsField(topics) ==
    IF topics.t = "list" THEN List(CleanTopics(topics.l)) ELSE List(<<>>)

\* validated["dates_mentioned"]
DatesField(dates) ==
    IF Truthy(dates) THEN Str(Strip(PyStr(dates))) ELSE None

\* validated["sentiment"]
SentimentField(sentiment) ==
    IF Truthy(sentiment) THEN Str(Lower(Strip(PyStr(sentiment))))
    ELSE Str("neutral")

\* validated["category"]
CategoryField(category) ==
    IF Truthy(category) THEN Str(Lower(Strip(PyStr(category))))
    ELSE Str("general")

\* _validate_metadata; Raised is the AttributeError of metadata.get on a value
\* that is no dict
ValidateMetadata(metadata) ==
    IF metadata.t # "obj" THEN Raised
    ELSE Obj([people |-> PeopleField(Get(metadata.o, "people", List(<<>>))),
              topics |-> TopicsField(Get(metadata.o, "topics", List(<<>>))),
              dates_mentioned |->
                  DatesField(Get(metadata.o, "dates_mentioned", Str(""))),
              sentiment |->
                  SentimentField(Get(metadata.o, "sentiment", Str("neutral"))),
              category |->
                  CategoryField(Get(metadata.o, "category", Str("general")))])

(***************************************************************************)
(* datetime values: ord is date.toordinal(), the time of day follows       *)
(***************************************************************************)
DateTime(ord, hour, minute, second, micro) ==
    [t |-> "datetime", ord |-> ord, hour |-> hour, minute |-> minute,
     second |-> second, micro |-> micro]

\* datetime.weekday(): Monday is 0
Weekday(ord) == (ord + 6) % 7

\* dt + timedelta(days = n)
PlusDays(dt, n) == [dt EXCEPT !.ord = dt.ord + n]

days == <<"monday", "tuesday", "wednesday", "thursday", "friday", "saturday",
          "sunday">>

(***************************************************************************)
(* dateutil's parser.parse(text, fuzzy=True), as far as the resolver uses   *)
(* it: the text is cut at whitespace, the first token that is a time of     *)
(* day (H am/pm, H:MM, H:MM am/pm) gives hour and minute, a weekday name    *)
(* gives the date of its next occurrence counted from today (today          *)
(* included), every other token is skipped, and a text with no such token   *)
(* raises ParserError.  Missing fields come from today at 00:00.  Month     *)
(* names and bare numbers are not modelled and no input holds one.          *)
(***************************************************************************)
\* s.split()
RECURSIVE Split(_)
RECURSIVE TokenEnd(_, _)
TokenEnd(s, i) ==
    IF i <= Len(s) /\ Char(s, i) \notin Whitespace THEN TokenEnd(s, i + 1) ELSE i

Split(s0) ==
    LET Cut(s, j) == <<SubSeq(s, 1, j - 1)>> \o Split(SubSeq(s, j, Len(s)))
        First(s) == IF s = "" THEN <<>> ELSE Cut(s, TokenEnd(s, 1))
    IN  First(LStrip(s0))

EndsWith(s, suffix) ==
    Len(suffix) <= Len(s) /\ SubSeq(s, Len(s) - Len(suffix) + 1, Len(s)) = suffix

AllDigits(s) == s # "" /\ DigitsEnd(s, 1) = Len(s) + 1

NoTime == [ok |-> FALSE]

\* the time of day a token states, NoTime when it states none
TimeOfToken(tok) ==
    LET Time(ampm, h, m) ==
            IF m > 59 THEN NoTime
            ELSE IF ampm = "" THEN
                   IF h <= 23 THEN [ok |-> TRUE, hour |-> h, minute |-> m]
                   ELSE NoTime
            ELSE IF h < 1 \/ h > 12 THEN NoTime
            ELSE [ok |-> TRUE, minute |-> m,
                  hour |-> IF ampm = "pm" THEN (h % 12) + 12 ELSE h % 12]
        Fields(ampm, colon, hstr, mstr) ==
            IF /\ AllDigits(hstr) /\ Len(hstr) <= 2
               /\ (colon = 0 => ampm # "")
               /\ (colon # 0 => AllDigits(mstr) /\ Len(mstr) = 2)
            THEN Time(ampm, DigitsValue(hstr, 1, Len(hstr) + 1, 0),
                      DigitsValue(mstr, 1, Len(mstr) + 1, 0))
            ELSE NoTime
        Body(ampm, body, colon) ==
            Fields(ampm, colon,
                   IF colon = 0 THEN body ELSE SubSeq(body, 1, colon - 1),
                   IF colon = 0 THEN "" ELSE SubSeq(body, colon + 1, Len(body)))
        Suffix(ampm, body) == Body(ampm, body, IndexIn(":", body))
    IN  IF EndsWith(tok, "am") THEN Suffix("am", SubSeq(tok, 1, Len(tok) - 2))
        ELSE IF EndsWith(tok, "pm") THEN Suffix("pm", SubSeq(tok, 1, Len(tok) - 2))
        ELSE Suffix("", tok)

\* index in days of a weekday name, 0 when tok is none
WeekdayOfToken(tok) ==
    IF \E i \in DOMAIN days : days[i] = tok
    THEN CHOOSE i \in DOMAIN days : days[i] = tok
    ELSE 0

FuzzyParse(text, today) ==
    LET Result(tm, ord) == DateTime(ord, tm.hour, tm.minute, 0, 0)
        Found(times, wdays) ==
            IF times = <<>> /\ wdays = <<>> THEN Raised
            ELSE Result(IF times = <<>> THEN [ok |-> TRUE, hour |-> 0, minute |-> 0]
                        ELSE TimeOfToken(times[1]),
                        IF wdays = <<>> THEN today
                        ELSE today + ((WeekdayOfToken(wdays[1]) - 1 - Weekday(today)) % 7))
        Tokens(toks) ==
            Found(SelectSeq(toks, LAMBDA k : TimeOfToken(k).ok),
                  SelectSeq(toks, LAMBDA k : WeekdayOfToken(k) > 0))
    IN  Tokens(Split(text))

(***************************************************************************)
(* _parse_natural_datetime                                                 *)
(***************************************************************************)
\* base_date.replace(hour=parsed_time.hour, minute=parsed_time.minute), the
\* seconds of now kept
ApplyTimeKeepSeconds(base_date, parsed_time) ==
    [base_date EXCEPT !.hour = parsed_time.hour, !.minute = parsed_time.minute]

\* base_date.replace(hour=parsed_time.hour, minute=parsed_time.minute,
\*                   second=0, microsecond=0)
ApplyTime(base_date, parsed_time) ==
    [base_date EXCEPT !.hour = parsed_time.hour, !.minute = parsed_time.minute,
                      !.second = 0, !.micro = 0]

\* base_date.replace(hour=9, minute=0, second=0, microsecond=0)
DefaultTime(base_date) ==
    [base_date EXCEPT !.hour = 9, !.minute = 0, !.second = 0, !.micro = 0]

\* the time fragment applied to base_date; dateparser.parse returns a datetime,
\* which is truthy, or raises.  withDefault: the branch has the 09:00 else-arm
TimePart(base_date, time_part0, now, withDefault) ==
    LET Parsed(parsed_time) ==
            IF parsed_time = Raised THEN Raised
            ELSE ApplyTime(base_date, parsed_time)
        Fragment(time_part) ==
            IF time_part # ""
            THEN Parsed(FuzzyParse(Strip(Replace(time_part, "at", "")), now.ord))
            ELSE IF withDefault THEN DefaultTime(base_date) ELSE base_date
    IN  Fragment(Strip(time_part0))

\* days_ahead with the test days_ahead < 0: the reference day itself is taken
DaysAheadSameDay(i, weekday) ==
    LET days_ahead == i - weekday
    IN  IF days_ahead < 0 THEN days_ahead + 7 ELSE days_ahead

\* days_ahead = i - now.weekday(); if days_ahead <= 0: days_ahead += 7
DaysAhead(i, weekday) ==
    LET days_ahead == i - weekday
    IN  IF days_ahead <= 0 THEN days_ahead + 7 ELSE days_ahead

HasNextDay(datetime_str) ==
    \E i \in DOMAIN days : Contains("next " \o days[i], datetime_str)

\* the loop over enumerate(days): the first day whose "next <day>" occurs
NextDayBranch(datetime_str, now) ==
    LET Day(i) ==
            TimePart(PlusDays(now, DaysAhead(i - 1, Weekday(now.ord))),
                     Replace(datetime_str, "next " \o days[i], ""), now, TRUE)
    IN  Day(CHOOSE k \in DOMAIN days :
              /\ Contains("next " \o days[k], datetime_str)
              /\ \A h \in 1..(k - 1) : ~Contains("next " \o days[h], datetime_str))

\* the dateutil fallback for other formats
FallbackBranch(datetime_str, now) ==
    LET Parsed(parsed) ==
            IF parsed = Raised THEN Raised
            ELSE IF /\ parsed.hour = 0 /\ parsed.minute = 0
                    /\ ~Contains("am", datetime_str) /\ ~Contains("pm", datetime_str)
                    /\ ~Contains(":", datetime_str)
                 THEN [parsed EXCEPT !.hour = 9]
                 ELSE parsed
    IN  Parsed(FuzzyParse(datetime_str, now.ord))

\* the body of the try block
ResolveBranches(datetime_str, now) ==
    IF Contains("tomorrow", datetime_str)
    THEN TimePart(PlusDays(now, 1), Replace(datetime_str, "tomorrow", ""), now, TRUE)
    ELSE IF Contains("today", datetime_str)
    THEN TimePart(now, Replace(datetime_str, "today", ""), now, FALSE)
    ELSE IF Contains("next week", datetime_str)
    THEN DefaultTime(PlusDays(now, 7))
    ELSE IF HasNextDay(datetime_str)
    THEN NextDayBranch(datetime_str, now)
    ELSE FallbackBranch(datetime_str, now)

\* _parse_natural_datetime(datetime_str) with now the value of datetime.now();
\* Raised is the AttributeError of .lower() on a value that is no str, which
\* is raised before the try block
ParseNaturalDatetime(datetime_str, now) ==
    IF ~Truthy(datetime_str) THEN None
    ELSE IF datetime_str.t # "str" THEN Raised
    ELSE Except(ResolveBranches(Strip(Lower(datetime_str.s)), now), None)

calendar_triggers ==
    <<"add to my calendar", "add on my calendar", "add to my agenda",
      "add on my agenda", "add to calendar", "add on agenda", "schedule",
      "create event", "add event", "add a new event", "add an event",
      "new event", "put on my calendar", "put on calendar", "calendar event",
      "set up a meeting", "set up meeting", "book a meeting", "book meeting",
      "add appointment", "add a new appointment", "add an appointment",
      "create appointment", "new appointment">>

\* any(trigger in message_lower for trigger in calendar_triggers)
HasCalendarIntent(message_lower) ==
    \E i \in DOMAIN calendar_triggers : Contains(calendar_triggers[i], message_lower)

\* the behaviour of generator.generate_chat on one invocation
RaiseReply == [kind |-> "raise"]

TextReply(text) == [kind |-> "text", text |-> text]

\* a finished call: what it returned and the messages it sent the generator
Outcome(result, calls) == [result |-> result, calls |-> calls]

\* len(message.strip()) < 5
MinMessageLength == 5

\* the length test on the message as given, not on message.strip()
TooShortUnstripped(message) == message = "" \/ Len(message) < MinMessageLength

TooShort(message) == message = "" \/ Len(Strip(message)) < MinMessageLength

\* the try block of extract_metadata
ExtractBody(reply) ==
    IF reply.kind = "raise" THEN Raised
    ELSE ValidateMetadata(ParseJsonResponse(reply.text))

\* extract_metadata without its except clause
ExtractMetadataUncaught(message, reply) ==
    IF TooShort(message) THEN Outcome(EmptyMetadata, <<>>)
    ELSE Outcome(ExtractBody(reply), <<message>>)

\* extract_metadata
ExtractMetadata(message, reply) ==
    IF TooShort(message) THEN Outcome(EmptyMetadata, <<>>)
    ELSE Outcome(Except(ExtractBody(reply), EmptyMetadata), <<message>>)

\* float(event_data.get("duration_hours", 1.0))
DurationHours(event_data) ==
    PyFloat(Get(event_data.o, "duration_hours", Num(1, 0, FALSE)))

\* not event_data or "summary" not in event_data
NoSummary(event_data) ==
    LET Missing(has) == IF has = Raised THEN Raised ELSE Bool(~has.b)
    IN  IF ~Truthy(event_data) THEN Bool(TRUE)
        ELSE Missing(In("summary", event_data))

\* the try block of detect_calendar_intent
DetectBody(reply, now) ==
    LET Event(event_data, parsed_datetime, duration_hours) ==
            IF parsed_datetime = Raised THEN Raised
            ELSE IF ~Truthy(parsed_datetime) THEN None
            ELSE IF duration_hours = Raised THEN Raised
            ELSE Obj([intent |-> Str("create_event"),
                      summary |-> event_data.o["summary"],
                      datetime |-> parsed_datetime,
                      duration_hours |-> duration_hours,
                      description |-> Get(event_data.o, "description", None)])
        Summary(event_data, noSummary) ==
            IF noSummary = Raised THEN Raised
            ELSE IF noSummary.b THEN None
            ELSE IF event_data.t # "obj" THEN Raised
            ELSE Event(event_data,
                       ParseNaturalDatetime(
                           Get(event_data.o, "datetime_description", Str("")), now),
                       DurationHours(event_data))
        Parsed(event_data) == Summary(event_data, NoSummary(event_data))
    IN  IF reply.kind = "raise" THEN Raised
        ELSE Parsed(ParseJsonResponse(reply.text))

\* detect_calendar_intent asking the generator before it looks for a trigger
DetectCalendarIntentEager(message, reply, now) ==
    Outcome(IF ~HasCalendarIntent(Strip(Lower(message))) THEN None
            ELSE Except(DetectBody(reply, now), None),
            <<message>>)

\* detect_calendar_intent
DetectCalendarIntent(message, reply, now) ==
    IF ~HasCalendarIntent(Strip(Lower(message))) THEN Outcome(None, <<>>)
    ELSE Outcome(Except(DetectBody(reply, now), None), <<message>>)

\* results.insert(0, metadata): the batch in reverse order
PrependResult(results, metadata) == <<metadata>> \o results

\* results.append(metadata)
AppendResult(results, metadata) == Append(results, metadata)

(***************************************************************************)
(* Inputs                                                                  *)
(***************************************************************************)
Quote(s) == "\"" \o s \o "\""

\* "key": value as JSON text
Member(k, valueText) == Quote(k) \o ": " \o valueText

\* the non-empty members joined by ", "
RECURSIVE JoinMembers(_)
JoinMembers(ms) ==
    IF ms = <<>> THEN ""
    ELSE IF ms[1] = "" THEN JoinMembers(Tail(ms))
    ELSE LET rest == JoinMembers(Tail(ms))
         IN  IF rest = "" THEN ms[1] ELSE ms[1] \o ", " \o rest

ObjectText(ms) == "{" \o JoinMembers(ms) \o "}"

\* messages around the length threshold of extract_metadata
ExtractMessages ==
    {"", "    ", "hi", " hey  ", "abcd", "  abcd \n", "abcde", "  abcde  ",
     "Lunch with Ana today"}

MetadataText ==
    ObjectText(<<Member("people", "[\"Ana\", \" Bob \"]"),
                 Member("topics", "[\"Lunch\"]"),
                 Member("dates_mentioned", "\"today\""),
                 Member("sentiment", "\"Positive\""),
                 Member("category", "\"Meeting\"")>>)

\* responses of the generator to an extraction prompt
ExtractTexts ==
    {"", "not json at all", "[1, 2]", "42", "null", "\"just text\"",
     "{}", "{\"people\": ", MetadataText,
     "Sure! " \o MetadataText \o "  Hope that helps.",
     "{\"people\": 5, \"topics\": \"oops\", \"sentiment\": null}",
     "{\"people\": [\" \", 0, 7], \"dates_mentioned\": \"  \"}",
     "[" \o MetadataText \o "]",
     "{\"meta\": {\"a\": {\"people\": [\"Eve\"]}}, \"category\": \"x\"}",
     "{\"category\": \"}\"}", "\"{x}\""}

ExtractReplies == {RaiseReply} \cup {TextReply(text) : text \in ExtractTexts}

\* messages with and without a trigger phrase
DetectMessages ==
    {"", "hello there", "Schedule a call with Ana tomorrow at 3pm",
     "  please ADD TO MY CALENDAR lunch ", "calendar", "book a meeting"}

SummaryMembers ==
    {"", Member("summary", "\"Call\""), Member("summary", "\"\""),
     Member("summary", "null")}

DatetimeMembers ==
    {"", Member("datetime_description", "\"tomorrow at 3pm\""),
     Member("datetime_description", "\"next monday\""),
     Member("datetime_description", "\"whenever\""),
     Member("datetime_description", "null"),
     Member("datetime_description", "5")}

DurationMembers ==
    {"", Member("duration_hours", "1.0"), Member("duration_hours", "2"),
     Member("duration_hours", "null"), Member("duration_hours", "\"1.5\""),
     Member("duration_hours", "\"abc\""), Member("duration_hours", "[1]"),
     Member("duration_hours", "true")}

EventTexts ==
    {ObjectText(<<sm, dm, um>>) :
        sm \in SummaryMembers, dm \in DatetimeMembers, um \in DurationMembers}

\* responses of the generator to a calendar prompt
DetectTexts ==
    EventTexts \cup
    {"", "not json at all", "[\"summary\"]", "\"summary\"", "5", "null",
     "Sure! {\"summary\": \"Call\", \"datetime_description\": \"tomorrow\", "
        \o "\"duration_hours\": 1.0, \"description\": null}  Hope that helps."}

DetectReplies == {RaiseReply} \cup {TextReply(text) : text \in DetectTexts}

\* arguments of _parse_json_response: the replies of both pipelines, and texts
\* with padding, with JSON that is no object, and with several brace groups
ResponseTexts ==
    ExtractTexts \cup DetectTexts \cup
    {" {\"a\": 1} \n", " [1, 2] \n", "true", "-1.5", "[]",
     "[{\"a\": 1}, 2]", "{bad} {\"a\": 1}", "{\"a\": 1} {\"b\": 2}",
     "Here it is: {\"a\": {\"b\": 2}} and {\"c\": 3}", "{\"a\": 1"}

\* reference day: date(2024, 1, 15).toordinal(), a Monday
RefOrdinal == 738900

\* datetime.now(): each weekday, at 10:00:00 and at 23:59:59.999999
Nows ==
    {DateTime(RefOrdinal + d, 10, 0, 0, 0) : d \in 0..6} \cup
    {DateTime(RefOrdinal + d, 23, 59, 59, 999999) : d \in 0..6}

DetectNows ==
    {DateTime(RefOrdinal, 10, 0, 0, 0), DateTime(RefOrdinal + 6, 23, 59, 59, 999999)}

\* longest phrase, in words of PhraseWords
MaxPhraseWords == 2

PhraseWords ==
    {"tomorrow", "today", "next week", "at", "3pm", "sometime", "next monday",
     "next friday", "next sunday"}

RECURSIVE JoinWords(_)
JoinWords(ws) ==
    IF ws = <<>> THEN ""
    ELSE IF Len(ws) = 1 THEN ws[1]
    ELSE ws[1] \o " " \o JoinWords(Tail(ws))

Phrases ==
    {JoinWords(ws) : ws \in UNION {[1..n -> PhraseWords] : n \in 1..MaxPhraseWords}}
    \cup {"next " \o days[i] : i \in DOMAIN days}
    \cup {"next " \o days[i] \o " at 10:30" : i \in DOMAIN days}
    \cup {"", " Tomorrow at 10:30 ", "tomorrow at 3pm", "Next Monday at 10am",
          "friday 12pm", "tomorrow saturday 3pm", "next tuesday sometime",
          "next saturday next tuesday"}

\* arguments of _parse_natural_datetime: phrases, and values that are no str
DatetimeArgs == {Str(p) : p \in Phrases} \cup {None, PyInt(5)}

\* field values of a raw metadata mapping; Absent: the key is missing
Absent == [t |-> "absent"]

PeopleValues ==
    {Absent, PyInt(5), Str("oops"), List(<<Str(" Ana "), Str("Bob")>>),
     List(<<Str(" "), Str(""), PyInt(0), None, PyInt(7)>>),
     List(<<Bool(TRUE), Num(25, 1, FALSE), List(<<PyInt(1), Str("a")>>),
            Obj([k |-> None])>>),
     Obj([a |-> PyInt(1)])}

TopicsValues ==
    {Absent, Str("oops"), List(<<Str(" Work "), Str("LUNCH")>>),
     List(<<Str("  "), Bool(FALSE), Bool(TRUE)>>)}

DatesValues ==
    {Absent, None, Str(""), Str("  "), Str(" next week "), PyInt(0),
     List(<<Str("x")>>)}

SentimentValues == {Absent, None, Str(" "), Str(" Positive "), PyInt(1)}

CategoryValues == {Absent, Str(""), Str("Work "), Obj(EmptyDict)}

\* the dict with the given fields, a field that is Absent left out
Mapping(fields) ==
    Obj([k \in {f \in DOMAIN fields : fields[f] # Absent} |-> fields[k]])

RawMappings ==
    {Mapping([people |-> p, topics |-> tp, dates_mentioned |-> d,
              sentiment |-> st, category |-> c]) :
        p \in PeopleValues, tp \in TopicsValues, d \in DatesValues,
        st \in SentimentValues, c \in CategoryValues}

\* longest batch
MaxBatch == 2

BatchMessages == {"hi", "Lunch with Ana today", "hello"}

BatchReplies ==
    {RaiseReply, TextReply(MetadataText),
     TextReply("{\"people\": [\"Eve\"]}")}

(***************************************************************************)
(* State: the last call made on the extractor (op, its arguments, what it  *)
(* returned, the messages it sent to the generator, in order) and the      *)
(* loop of extract_metadata_batch.                                         *)
(***************************************************************************)
VARIABLES op, message, reply, now, datetime_str, metadata, result, callLog,
          messages, replies, results, pc

vars == <<op, message, reply, now, datetime_str, metadata, result, callLog,
          messages, replies, results, pc>>

NoNow == DateTime(0, 0, 0, 0, 0)

\* no call is in progress and none has returned a value not yet taken
Idle == pc = "idle" /\ op = "none"

Init ==
    /\ op = "none"
    /\ message = ""
    /\ reply = RaiseReply
    /\ now = NoNow
    /\ datetime_str = None
    /\ metadata = None
    /\ result = None
    /\ callLog = <<>>
    /\ messages = <<>>
    /\ replies = <<>>
    /\ results = <<>>
    /\ pc = "idle"

NoBatch == /\ messages' = <<>> /\ replies' = <<>> /\ results' = <<>> /\ pc' = "idle"

\* the caller takes the returned value; the extractor keeps nothing of the call
\* (its only attribute is the generator), so the next call starts afresh
TakeResult ==
    /\ pc = "idle"
    /\ op # "none"
    /\ op' = "none"
    /\ message' = ""
    /\ reply' = RaiseReply
    /\ now' = NoNow
    /\ datetime_str' = None
    /\ metadata' = None
    /\ result' = None
    /\ callLog' = <<>>
    /\ NoBatch

\* extractor.extract_metadata(m) with a generator behaving as r
CallExtractMetadata ==
    /\ Idle
    /\ \E m \in ExtractMessages, r \in ExtractReplies :
         LET Return(out) == result' = out.result /\ callLog' = out.calls
         IN  /\ op' = "extract_metadata"
             /\ message' = m
             /\ reply' = r
             /\ Return(ExtractMetadata(m, r))
    /\ now' = NoNow /\ datetime_str' = None /\ metadata' = None
    /\ NoBatch

\* extractor.detect_calendar_intent(m) at time n with a generator behaving as r
CallDetectCalendarIntent ==
    /\ Idle
    /\ \E m \in DetectMessages, r \in DetectReplies, n \in DetectNows :
         LET Return(out) == result' = out.result /\ callLog' = out.calls
         IN  /\ op' = "detect_calendar_intent"
             /\ message' = m
             /\ reply' = r
             /\ now' = n
             /\ Return(DetectCalendarIntent(m, r, n))
    /\ datetime_str' = None /\ metadata' = None
    /\ NoBatch

\* extractor._parse_json_response(r)
CallParseJsonResponse ==
    /\ Idle
    /\ \E r \in ResponseTexts :
         /\ op' = "_parse_json_response"
         /\ reply' = TextReply(r)
         /\ result' = ParseJsonResponse(r)
    /\ message' = "" /\ now' = NoNow /\ datetime_str' = None /\ metadata' = None
    /\ callLog' = <<>>
    /\ NoBatch

\* extractor._validate_metadata(x)
CallValidateMetadata ==
    /\ Idle
    /\ \E x \in RawMappings :
         /\ op' = "_validate_metadata"
         /\ metadata' = x
         /\ result' = ValidateMetadata(x)
    /\ message' = "" /\ reply' = RaiseReply /\ now' = NoNow /\ datetime_str' = None
    /\ callLog' = <<>>
    /\ NoBatch

\* extractor._parse_natural_datetime(d) at time n
CallParseNaturalDatetime ==
    /\ Idle
    /\ \E d \in DatetimeArgs, n \in Nows :
         /\ op' = "_parse_natural_datetime"
         /\ datetime_str' = d
         /\ now' = n
         /\ result' = ParseNaturalDatetime(d, n)
    /\ message' = "" /\ reply' = RaiseReply /\ metadata' = None
    /\ callLog' = <<>>
    /\ NoBatch

\* extract_metadata_batch(generator, ms): extractor and results = [] are set up
BatchStart ==
    /\ Idle
    /\ \E n \in 0..MaxBatch : \E ms \in [1..n -> BatchMessages] :
         messages' = ms
    /\ op' = "extract_metadata_batch"
    /\ replies' = <<>>
    /\ results' = <<>>
    /\ callLog' = <<>>
    /\ result' = None
    /\ pc' = "loop"
    /\ message' = "" /\ reply' = RaiseReply /\ now' = NoNow
    /\ datetime_str' = None /\ metadata' = None

\* one iteration of the for loop, the generator behaving as r on it
BatchStep ==
    /\ pc = "loop"
    /\ Len(results) < Len(messages)
    /\ \E r \in BatchReplies :
         LET Iterate(out) ==
                 /\ results' = AppendResult(results, out.result)
                 /\ callLog' = callLog \o out.calls
         IN  /\ Iterate(ExtractMetadata(messages[Len(results) + 1], r))
             /\ replies' = Append(replies, r)
    /\ UNCHANGED <<op, message, reply, now, datetime_str, metadata, result,
                   messages, pc>>

\* return results
BatchReturn ==
    /\ pc = "loop"
    /\ Len(results) >= Len(messages)
    /\ result' = List(results)
    /\ pc' = "idle"
    /\ UNCHANGED <<op, message, reply, now, datetime_str, metadata, callLog,
                   messages, replies, results>>

Next ==
    \/ CallExtractMetadata
    \/ CallDetectCalendarIntent
    \/ CallParseJsonResponse
    \/ CallValidateMetadata
    \/ CallParseNaturalDatetime
    \/ BatchStart
    \/ BatchStep
    \/ BatchReturn
    \/ TakeResult

Spec == Init /\ [][Next]_vars

(***************************************************************************)
(* Claims                                                                  *)
(***************************************************************************)
MetadataKeys == {"people", "topics", "dates_mentioned", "sentiment", "category"}

\* the model output recovered from the reply of the last call
RecoveredData == ParseJsonResponse(reply.text)

\* the recovered model output is a mapping with a non-empty string summary
HasNonEmptySummary ==
    /\ reply.kind = "text"
    /\ RecoveredData.t = "obj"
    /\ "summary" \in DOMAIN RecoveredData.o
    /\ RecoveredData.o["summary"].t = "str"
    /\ RecoveredData.o["summary"].s # ""

\* the datetime_description of the recovered model output resolves to a timestamp
TimestampResolved ==
    /\ reply.kind = "text"
    /\ RecoveredData.t = "obj"
    /\ ParseNaturalDatetime(
           Get(RecoveredData.o, "datetime_description", Str("")), now).t = "datetime"

\* C1: detect_calendar_intent returns a candidate only when the recovered
\* model output has a non-empty summary and its datetime_description was
\* resolved to a timestamp; otherwise the result is absent.
C1_CandidateNeedsSummaryAndTimestamp ==
    (op = "detect_calendar_intent" /\ result # None) =>
        HasNonEmptySummary /\ TimestampResolved

\* a stage of the extraction fails: the generator raises, the reply holds no
\* decodable JSON, or the JSON it holds is no mapping
ExtractionStageFails ==
    \/ reply.kind = "raise"
    \/ /\ JsonLoads(reply.text) = Raised
       /\ \/ ~RegexSearch(reply.text).found
          \/ JsonLoads(RegexSearch(reply.text).group) = Raised
    \/ RecoveredData.t # "obj"

\* C2: extract_metadata always returns a metadata object with the five
\* fields, and the default ExtractedMetadata whenever a stage fails.
C2_ExtractNeverFailsOutward ==
    op = "extract_metadata" =>
        /\ result.t = "obj"
        /\ DOMAIN result.o = MetadataKeys
        /\ ExtractionStageFails => result = EmptyMetadata

\* C2 witness: the generator was asked and answered JSON that is no mapping
C2_Witness ==
    /\ op = "extract_metadata"
    /\ callLog = <<message>>
    /\ reply = TextReply("[1, 2]")
    /\ result = EmptyMetadata

\* C3: a message whose trimmed length is below 5 gets the default
\* ExtractedMetadata and the generator is not invoked.
C3_ShortMessageSkipsGenerator ==
    (op = "extract_metadata" /\ Len(Strip(message)) < 5) =>
        result = EmptyMetadata /\ callLog = <<>>

\* C3 witness: four characters between whitespace, and a reply that would
\* have given other metadata
C3_Witness ==
    /\ op = "extract_metadata"
    /\ message = "  abcd \n"
    /\ reply = TextReply(MetadataText)
    /\ result = EmptyMetadata
    /\ callLog = <<>>

\* the lower-cased, trimmed message holds one of the trigger phrases
TriggerMatched ==
    \E i \in DOMAIN calendar_triggers :
        Contains(calendar_triggers[i], Strip(Lower(message)))

\* C4: without a trigger phrase detect_calendar_intent returns absent and the
\* generator is not invoked; the generator is invoked only after a match.
C4_NoTriggerNoGeneratorCall ==
    op = "detect_calendar_intent" =>
        /\ ~TriggerMatched => result = None /\ callLog = <<>>
        /\ callLog # <<>> => TriggerMatched

\* C4 witness: no trigger in the message, and a reply that would have given
\* an event
C4_Witness ==
    /\ op = "detect_calendar_intent"
    /\ message = "calendar"
    /\ HasNonEmptySummary /\ TimestampResolved
    /\ result = None
    /\ callLog = <<>>

\* the duration_hours of the recovered model output is there and float()
\* takes it
DurationValid ==
    /\ "duration_hours" \in DOMAIN RecoveredData.o
    /\ PyFloat(RecoveredData.o["duration_hours"]) # Raised

\* C5: with a non-empty summary and a resolved timestamp the result is a
\* candidate whose duration_hours is the model's value as a float, and 1.0
\* when that value is absent or invalid.
C5_DurationDefaultsToOne ==
    (/\ op = "detect_calendar_intent"
     /\ callLog # <<>>
     /\ HasNonEmptySummary
     /\ TimestampResolved) =>
        /\ result # None
        /\ result.o.duration_hours =
               IF DurationValid THEN PyFloat(RecoveredData.o["duration_hours"])
               ELSE Num(1, 0, FALSE)

\* C6: _validate_metadata is idempotent: validating a validated mapping
\* changes nothing.
C6_ValidateIdempotent ==
    (op = "_validate_metadata" /\ result # Raised) =>
        ValidateMetadata(result) = result

\* the values bool() takes for false
FalsyValues ==
    {None, Bool(FALSE), PyInt(0), Num(0, 0, FALSE), Str(""), List(<<>>),
     Obj(EmptyDict)}

\* the field k of the raw mapping is missing or falsy
MissingOrFalsy(k) == k \notin DOMAIN metadata.o \/ metadata.o[k] \in FalsyValues

\* the field k of the raw mapping is there and is a list
IsListField(k) == k \in DOMAIN metadata.o /\ metadata.o[k].t = "list"

\* every element of the list value v is a string
AllStrings(v) == v.t = "list" /\ \A i \in DOMAIN v.l : v.l[i].t = "str"

\* C7: _validate_metadata returns, for every raw mapping, a mapping with
\* exactly the five keys; people and topics are lists of strings, empty when
\* the raw value is no list; a missing or falsy dates_mentioned gives None,
\* a missing or falsy sentiment "neutral", a missing or falsy category
\* "general", and every other value a string.
C7_ValidateTotal ==
    op = "_validate_metadata" =>
        /\ result # Raised
        /\ result.t = "obj"
        /\ DOMAIN result.o = MetadataKeys
        /\ AllStrings(result.o.people) /\ AllStrings(result.o.topics)
        /\ ~IsListField("people") => result.o.people = List(<<>>)
        /\ ~IsListField("topics") => result.o.topics = List(<<>>)
        /\ IF MissingOrFalsy("dates_mentioned")
           THEN result.o.dates_mentioned = None
           ELSE result.o.dates_mentioned.t = "str"
        /\ IF MissingOrFalsy("sentiment")
           THEN result.o.sentiment = Str("neutral")
           ELSE result.o.sentiment.t = "str"
        /\ IF MissingOrFalsy("category")
           THEN result.o.category = Str("general")
           ELSE result.o.category.t = "str"

\* C7 witness: {"people": 5, "topics": "oops", "sentiment": None} gives the
\* defaults in all five fields
C7_Witness ==
    /\ op = "_validate_metadata"
    /\ metadata = Obj([people |-> PyInt(5), topics |-> Str("oops"),
                       sentiment |-> None])
    /\ result = EmptyMetadata

\* the phrase as the resolver reads it: lower-cased and trimmed
Phrase == Strip(Lower(datetime_str.s))

\* the last call resolved a phrase of the "next <weekday>" branch
NextDayCase ==
    /\ op = "_parse_natural_datetime"
    /\ datetime_str.t = "str"
    /\ ~Contains("tomorrow", Phrase)
    /\ ~Contains("today", Phrase)
    /\ ~Contains("next week", Phrase)
    /\ HasNextDay(Phrase)

\* the result is a date 1..7 days after the reference date on weekday
\* days[i], 7 days after it when the reference date is on that weekday
IsNextOccurrence(i) ==
    /\ result.t = "datetime"
    /\ result.ord - now.ord \in 1..7
    /\ Weekday(result.ord) = i - 1
    /\ Weekday(now.ord) = i - 1 => result.ord = now.ord + 7

\* C8 as stated: every "next <w>" in the phrase yields a date 1..7 days
\* after the reference date on weekday w, 7 days after it when w is the
\* reference weekday.
C8_NextWeekdayAlwaysResolved ==
    NextDayCase =>
        \A i \in DOMAIN days :
            Contains("next " \o days[i], Phrase) => IsNextOccurrence(i)

\* the first weekday, in the order monday..sunday, whose "next <w>" occurs
FirstNextDay ==
    CHOOSE k \in DOMAIN days :
        /\ Contains("next " \o days[k], Phrase)
        /\ \A h \in 1..(k - 1) : ~Contains("next " \o days[h], Phrase)

\* what is left of the phrase without the keyword, and whether a time of day
\* can be read from it once "at" is removed
FragmentAfter(keyword) == Strip(Replace(Phrase, keyword, ""))

FragmentTime(keyword) ==
    FuzzyParse(Strip(Replace(FragmentAfter(keyword), "at", "")), now.ord)

\* C8 amended: the result is absent exactly when text is left after removing
\* "next <w>" and no time of day can be read from it; otherwise it is a date
\* 1..7 days after the reference date on weekday w, 7 days after it when w
\* is the reference weekday, w being the first weekday in the order
\* monday..sunday whose "next <w>" occurs in the phrase.
C8_NextWeekdayOrAbsent ==
    NextDayCase =>
        IF /\ FragmentAfter("next " \o days[FirstNextDay]) # ""
           /\ FragmentTime("next " \o days[FirstNextDay]) = Raised
        THEN result = None
        ELSE IsNextOccurrence(FirstNextDay)

\* C8 witness: "next monday" asked on a Monday gives the Monday a week later
C8_Witness ==
    /\ NextDayCase
    /\ datetime_str = Str("next monday")
    /\ Weekday(now.ord) = 0
    /\ result = DateTime(now.ord + 7, 9, 0, 0, 0)

\* the last call resolved a phrase of the "tomorrow" branch
TomorrowCase ==
    /\ op = "_parse_natural_datetime"
    /\ datetime_str.t = "str"
    /\ Contains("tomorrow", Phrase)

\* C9: a phrase containing "tomorrow" resolves to absent when text is left
\* after removing "tomorrow" and no time of day can be read from it; else to
\* the day after the reference day with seconds and microseconds zero, at
\* the hour and minute read from the text, and at 09:00 when no text is left.
\* On 2024-01-15 10:00, "tomorrow at 3pm" gives 2024-01-16 15:00.
C9_TomorrowResolution ==
    TomorrowCase =>
        /\ IF FragmentAfter("tomorrow") = ""
           THEN result = DateTime(now.ord + 1, 9, 0, 0, 0)
           ELSE IF FragmentTime("tomorrow") = Raised
           THEN result = None
           ELSE result = DateTime(now.ord + 1, FragmentTime("tomorrow").hour,
                                  FragmentTime("tomorrow").minute, 0, 0)
        /\ (datetime_str = Str("tomorrow at 3pm") /\ now.hour = 10) =>
               result = DateTime(now.ord + 1, 15, 0, 0, 0)

\* C9 witness: "tomorrow at 3pm" asked at 23:59:59.999999
C9_Witness ==
    /\ TomorrowCase
    /\ datetime_str = Str("tomorrow at 3pm")
    /\ now.second = 59 /\ now.micro = 999999
    /\ result = DateTime(now.ord + 1, 15, 0, 0, 0)

\* the generator calls of the first n iterations of the batch, in order
RECURSIVE BatchCalls(_)
BatchCalls(n) ==
    IF n = 0 THEN <<>>
    ELSE BatchCalls(n - 1) \o ExtractMetadata(messages[n], replies[n]).calls

\* C10: extract_metadata_batch handles the messages one by one in input
\* order: entry i of the results is what extract_metadata returns for
\* message i, the generator is called in that order, and the list returned
\* has one entry for each message.
C10_BatchPreservesOrder ==
    op = "extract_metadata_batch" =>
        /\ Len(results) <= Len(messages)
        /\ Len(replies) = Len(results)
        /\ \A i \in 1..Len(results) :
               results[i] = ExtractMetadata(messages[i], replies[i]).result
        /\ callLog = BatchCalls(Len(results))
        /\ pc = "idle" =>
               /\ result = List(results)
               /\ Len(result.l) = Len(messages)

\* C10 witness: a batch of two returned, the generator raising on the first
\* message and answering the second, the two entries differing
C10_Witness ==
    /\ op = "extract_metadata_batch"
    /\ pc = "idle"
    /\ Len(messages) = 2
    /\ replies[1] = RaiseReply
    /\ callLog = messages
    /\ result.l[1] = EmptyMetadata
    /\ result.l[2] # EmptyMetadata

\* what the parser returns when nothing decodes: _empty_metadata()
ParseFailure == EmptyMetadata

\* the strict JSON decode of the first brace-delimited match, Raised when
\* there is no match or it does not decode
FirstMatchDecoded ==
    IF RegexSearch(reply.text).found
    THEN JsonLoads(RegexSearch(reply.text).group)
    ELSE Raised

\* what the ordered chain gives: the decoded first match, else the decoded
\* whole text, else ParseFailure
ChainResult ==
    IF FirstMatchDecoded # Raised THEN FirstMatchDecoded
    ELSE IF JsonLoads(reply.text) # Raised THEN JsonLoads(reply.text)
    ELSE ParseFailure

\* C11: _parse_json_response raises nothing, returns what the ordered chain
\* gives (decoded first brace match, else decoded whole text, else
\* ParseFailure), and what it returns is a mapping, never a list, a number,
\* a string, a boolean or null.
C11_ParserReturnsMappingOrFailure ==
    op = "_parse_json_response" =>
        /\ result # Raised
        /\ result = ChainResult
        /\ result.t = "obj"

=============================================================================
